---- MODULE Spec2Model ----
(***************************************************************************)
(* The feed ingestion engine of backend/feed_ingestor.py: run_once and the *)
(* functions it calls, over a relational store (podcasts, episodes) and an *)
(* upstream HTTP server.  Time is counted in minutes.                      *)
(***************************************************************************)
EXTENDS Integers, Sequences, FiniteSets, TLC

VARIABLES
    env,                  \* the options read from the environment (lines 28-51)
    csv,                  \* the rows of feeds.csv: <<feed_url, genre_override, is_daily>>
    tsOffset,             \* whether the store returns timestamps with a UTC offset
    now,                  \* the clock, in minutes
    podcasts,             \* table podcasts: feed_url -> row
    episodes,             \* table episodes: a set of rows
    pc,                   \* where run_once is: idle, loop, upsert, sample, items, reconcile, ...
    runs,                 \* the number of runs started
    faults,               \* the number of failures (store, network, kill) injected so far
    ticks,                \* the number of times the clock was advanced
    active_urls,          \* the outcome of get_active_feed_urls in this run
    feeds_to_process,     \* run_once's list of feed URLs
    idx,                  \* the position of the feed loop in feeds_to_process
    processed, skipped, errors, new_episodes_added, deleted_count,
    cur,                  \* the locals of the loop body for the current feed
    podcasts_to_delete,   \* delete_podcasts_not_in_csv's list
    workers,              \* concurrent callers of insert_new_episode: worker -> its position
    call,                 \* the last call of a function taken alone: its input and output
    hist                  \* history of the run: what was fetched, sampled, attempted, written

storeVars == <<podcasts, episodes>>
countVars == <<processed, skipped, errors, new_episodes_added, deleted_count>>
vars == <<env, csv, tsOffset, now, podcasts, episodes, pc, runs, faults, ticks, active_urls,
          feeds_to_process, idx, processed, skipped, errors, new_episodes_added,
          deleted_count, cur, podcasts_to_delete, workers, call, hist>>

----------------------------------------------------------------------------
(* Values *)

None == "None"
Truthy(s) == s # None /\ s # ""
Or(a, b) == IF Truthy(a) THEN a ELSE b

MinutesPerDay == 24 * 60
threshold_minutes == 10
ACTIVE_DAYS == 60
SampleLimit == 5
max_retries == 3
batch_size == 400

Feeds == {"A", "B", "C"}
PodcastId(f) == "id_" \o f

\* Bounds of the model
MaxRuns == 2
MaxFaults == 1
MaxTicks == 1
NumWorkers == 2
MaxDurationLen == 5
MaxGenres == 3
MaxOverrideLen == 3
MaxAuthorLen == 2
MaxSubcategories == 1

T0 == 100 * MinutesPerDay

Item(id, link, published) == [id |-> id, guid |-> None, link |-> link, published |-> published,
                              itunes_duration |-> <<>>, duration |-> <<>>]

\* The upstream feed bodies (parsed.entries), unchanged throughout.
Body(f) ==
    CASE f = "A" -> << Item("a1", None, <<T0 - 59 * MinutesPerDay>>),
                       Item("a2", None, <<T0 - 70 * MinutesPerDay>>),
                       Item("a3", None, <<T0 - 80 * MinutesPerDay>>),
                       Item("a4", None, <<T0 - 81 * MinutesPerDay>>),
                       Item("a5", None, <<T0 - 82 * MinutesPerDay>>),
                       Item("a6", None, <<T0 - 83 * MinutesPerDay>>) >>
      [] f = "B" -> << Item(None, "b1", <<T0 - 61 * MinutesPerDay>>),
                       Item(None, None, <<>>),
                       Item("b1", None, <<T0 - 61 * MinutesPerDay>>) >>
      [] OTHER   -> << Item("c1", None, <<>>) >>

----------------------------------------------------------------------------
(* Exceptions.  text is the set of phrases found in str(e).lower(). *)

NoExc == [kind |-> "none", code |-> None, text |-> {}]
NetworkError == [kind |-> "NetworkError", code |-> None, text |-> {"connection reset"}]
UniqueViolation == [kind |-> "APIError", code |-> "23505",
                    text |-> {"23505", "duplicate key", "unique constraint"}]
StoreError == [kind |-> "APIError", code |-> "23503", text |-> {"foreign key constraint"}]
HTTPStatusError == [kind |-> "HTTPStatusError", code |-> None, text |-> {"404"}]
ConnectError == [kind |-> "ConnectError", code |-> None, text |-> {"connection refused"}]
AttributeError == [kind |-> "AttributeError", code |-> None, text |-> {"nonetype"}]
ValueError == [kind |-> "ValueError", code |-> None, text |-> {"invalid literal for int()"}]
NameError == [kind |-> "NameError", code |-> None, text |-> {"is not defined"}]

Raised(r) == r.exc # NoExc

----------------------------------------------------------------------------
(* The store.  A request is executed under a network condition:            *)
(*   clean  - the request is applied and its response arrives              *)
(*   drop   - the request never arrives (network error)                    *)
(*   lost   - the request is applied, the response is lost (network error) *)
(*   reject - the store answers with a non-transient error                 *)

Conds == {"clean", "drop", "lost", "reject"}

AllOf(c) == [n \in 1..max_retries |-> c]
FirstThen(c1, c) == [n \in 1..max_retries |-> IF n = 1 THEN c1 ELSE c]
CleanPlan == AllOf("clean")
ReadFaults == {AllOf("reject"), AllOf("drop")}
WriteFaults == ReadFaults \cup {FirstThen("lost", "clean")}

Store(p, e) == [podcasts |-> p, episodes |-> e]

Attempt(st, cond, applied, store_exc, ret) ==
    IF cond = "drop" THEN [st |-> st, exc |-> NetworkError, ret |-> None]
    ELSE IF cond = "reject" THEN [st |-> st, exc |-> StoreError, ret |-> None]
    ELSE IF cond = "lost" THEN [st |-> applied, exc |-> NetworkError, ret |-> None]
    ELSE [st |-> applied, exc |-> store_exc, ret |-> ret]

SameKey(r, ep) == r.podcast_id = ep.podcast_id /\ r.guid = ep.guid

\* episodes has unique(podcast_id, guid): a second row with the key is rejected with 23505.
\* The stored row carries the id the store gives it (here: the number of rows with its key).
StoredRow(ep, n) == [id |-> n, podcast_id |-> ep.podcast_id, guid |-> ep.guid,
                     pub_date |-> ep.pub_date, duration_seconds |-> ep.duration_seconds]

InsertRow(st, ep, cond) ==
    LET same == {r \in st.episodes : SameKey(r, ep)}
    IN  IF same # {} THEN Attempt(st, cond, st, UniqueViolation, None)
        ELSE Attempt(st, cond,
                     [st EXCEPT !.episodes = @ \cup {StoredRow(ep, Cardinality(same))}],
                     NoExc, None)

\* podcasts has unique(feed_url); upsert on_conflict=feed_url writes every column sent.
UpsertRow(st, feed_url, data, cond) ==
    LET row == [id |-> PodcastId(feed_url), etag |-> data.etag,
                last_modified |-> data.last_modified, last_refreshed |-> data.last_refreshed]
        p2 == [f \in DOMAIN st.podcasts \cup {feed_url} |->
                  IF f = feed_url THEN row ELSE st.podcasts[f]]
    IN  Attempt(st, cond, [st EXCEPT !.podcasts = p2], NoExc, row)

\* delete from podcasts where feed_url = ..., episodes going by cascade
DeleteRow(st, feed_url, cond) ==
    LET p2 == [f \in DOMAIN st.podcasts \ {feed_url} |-> st.podcasts[f]]
        e2 == {r \in st.episodes : r.podcast_id # PodcastId(feed_url)}
    IN  Attempt(st, cond, Store(p2, e2), NoExc, None)

\* The text the store returns for a timestamp column: <<>> for null, else <<t, offset>>.
TimestampText(ts, offset) == IF ts = <<>> THEN <<>> ELSE <<ts[1], IF offset THEN "+00:00" ELSE "">>

\* dateutil's parse of such a text
DateParse(s) == [t |-> s[1], aware |-> s[2] # ""]

----------------------------------------------------------------------------
(* retry_db_operation: func(st, cond) is one execution of the wrapped call *)

\* a variant whose first except clause catches every exception
IsNetworkError_all(e) == e.kind # "none"

IsNetworkError(e) == e.kind \in {"RemoteProtocolError", "NetworkError", "ConnectError"}

\* a variant that compares the attempt number with max_retries instead of max_retries - 1
RetryDecision_late(r, attempt) ==
    IF ~Raised(r) THEN "return"
    ELSE IF IsNetworkError(r.exc)
         THEN IF attempt = max_retries THEN "raise" ELSE "retry"
         ELSE "raise"

\* what the loop body does with the outcome r of attempt number attempt (from 0)
RetryDecision(r, attempt) ==
    IF ~Raised(r) THEN "return"
    ELSE IF IsNetworkError(r.exc)
         THEN IF attempt = max_retries - 1 THEN "raise" ELSE "retry"
         ELSE "raise"

\* calls counts the invocations of func, sleeps the backoff sleeps (line 88)
retry_db_operation(func(_, _), st0, plan) ==
    LET RECURSIVE loop(_, _, _)
        loop(st, attempt, sleeps) ==
            IF attempt >= max_retries
            THEN [st |-> st, exc |-> NoExc, ret |-> None, calls |-> attempt, sleeps |-> sleeps]
            ELSE LET r == func(st, plan[attempt + 1])
                 IN  IF RetryDecision(r, attempt) = "retry"
                     THEN loop(r.st, attempt + 1, sleeps + 1)
                     ELSE [st |-> r.st, exc |-> r.exc, ret |-> r.ret, calls |-> attempt + 1,
                           sleeps |-> sleeps]
    IN  loop(st0, 0, 0)

----------------------------------------------------------------------------
(* The functions of feed_ingestor.py.  Each takes the store st and the     *)
(* network conditions of its store calls, and returns [st, exc, ret].      *)

Result(st, exc, ret) == [st |-> st, exc |-> exc, ret |-> ret]

NoMeta == [none |-> TRUE, etag |-> None, last_modified |-> None]
Meta(etag, last_modified) == [none |-> FALSE, etag |-> etag, last_modified |-> last_modified]

\* a variant that leaves last_refreshed out of the upserted data
upsert_podcast_stale(st, feed_url, meta, t, plan) ==
    IF meta.none THEN Result(st, AttributeError, None)
    ELSE LET data == [etag |-> meta.etag, last_modified |-> meta.last_modified,
                      last_refreshed |-> IF feed_url \in DOMAIN st.podcasts
                                         THEN st.podcasts[feed_url].last_refreshed ELSE <<>>]
             upsert_op(s, c) == UpsertRow(s, feed_url, data, c)
             r == retry_db_operation(upsert_op, st, plan)
         IN  Result(r.st, r.exc, r.ret)

upsert_podcast(st, feed_url, meta, t, plan) ==
    IF meta.none THEN Result(st, AttributeError, None)      \* meta.get on None, line 96
    ELSE LET data == [etag |-> meta.etag, last_modified |-> meta.last_modified,
                      last_refreshed |-> <<t>>]
             upsert_op(s, c) == UpsertRow(s, feed_url, data, c)
             r == retry_db_operation(upsert_op, st, plan)
         IN  Result(r.st, r.exc, r.ret)

\* a variant that tests the response object instead of its data, so every item "exists"
check_episode_exists_response(st, podcast_id, guid, plan) ==
    LET check_exists(s, c) == Attempt(s, c, s, NoExc, {})
        r == retry_db_operation(check_exists, st, plan)
    IN  IF Raised(r) THEN Result(r.st, r.exc, None)
        ELSE Result(r.st, NoExc, TRUE)

check_episode_exists(st, podcast_id, guid, plan) ==
    LET check_exists(s, c) ==
            Attempt(s, c, s, NoExc,
                    {r \in s.episodes : r.podcast_id = podcast_id /\ r.guid = guid})
        r == retry_db_operation(check_exists, st, plan)
    IN  IF Raised(r) THEN Result(r.st, r.exc, None)
        ELSE Result(r.st, NoExc, r.ret # {})

GuidOf(item) == Or(item.id, Or(item.guid, item.link))

\* a variant that takes every store error for a uniqueness violation
IsUniqueViolationError_any(e) == e.kind # "none"

\* a variant that tests for the foreign-key code instead of the unique-violation code
IsUniqueViolationError_fk(e) == e.code = "23503"

IsUniqueViolationError(e) ==
    \/ e.code = "23505"
    \/ "23505" \in e.text
    \/ "duplicate key" \in e.text
    \/ "unique constraint" \in e.text

\* Strings whose characters matter are sequences of one-character strings; "" is <<>>.
\* str.split(sep)
Split(s, sep) ==
    LET RECURSIVE split(_)
        split(t) ==
            IF \A i \in 1..Len(t) : t[i] # sep THEN <<t>>
            ELSE LET i == CHOOSE j \in 1..Len(t) : t[j] = sep /\ \A k \in 1..(j - 1) : t[k] # sep
                 IN  <<SubSeq(t, 1, i - 1)>> \o split(SubSeq(t, i + 1, Len(t)))
    IN  split(s)

DigitValue == ("0" :> 0) @@ ("1" :> 1) @@ ("2" :> 2) @@ ("3" :> 3)

\* the value of a string of decimal digits
Decimal(s) ==
    LET RECURSIVE dec(_)
        dec(n) == IF n = 0 THEN 0 ELSE dec(n - 1) * 10 + DigitValue[s[n]]
    IN  dec(Len(s))

\* int(s): ValueError unless s is a non-empty string of digits
IntOf(s) ==
    IF s = <<>> \/ \E i \in 1..Len(s) : s[i] \notin DOMAIN DigitValue
    THEN [exc |-> ValueError, value |-> 0]
    ELSE [exc |-> NoExc, value |-> Decimal(s)]

\* lines 152-160, the body of the try: <<>> is a null duration
DurationOf(dur) ==
    IF \E i \in 1..Len(dur) : dur[i] = ":"
    THEN LET texts == Split(dur, ":")
             parts == [n \in 1..Len(texts) |-> IntOf(texts[n])]
         IN  IF \E n \in 1..Len(parts) : Raised(parts[n])
             THEN [exc |-> ValueError, value |-> <<>>]
             ELSE IF Len(parts) = 3
             THEN [exc |-> NoExc,
                   value |-> <<parts[1].value * 3600 + parts[2].value * 60 + parts[3].value>>]
             ELSE IF Len(parts) = 2
             THEN [exc |-> NoExc, value |-> <<parts[1].value * 60 + parts[2].value>>]
             ELSE [exc |-> NoExc, value |-> <<>>]
    ELSE LET n == IntOf(dur)
         IN  IF Raised(n) THEN [exc |-> ValueError, value |-> <<>>]
             ELSE [exc |-> NoExc, value |-> <<n.value>>]

\* a variant without the except clause
DurationHandler_raise(r) == r

\* lines 161-162: except Exception: pass
DurationHandler(r) == IF Raised(r) THEN [exc |-> NoExc, value |-> <<>>] ELSE r

\* lines 148-162: duration_seconds of an item
parse_duration(item) ==
    LET dur == IF item.itunes_duration # <<>> THEN item.itunes_duration ELSE item.duration
    IN  IF dur = <<>> THEN [exc |-> NoExc, value |-> <<>>]
        ELSE DurationHandler(DurationOf(dur))

\* str.lower(), character by character
LowerChar(c) == IF c = "F" THEN "f" ELSE IF c = "H" THEN "h" ELSE c
Lower(s) == [i \in 1..Len(s) |-> LowerChar(s[i])]

\* str.strip()
Strip(s) ==
    LET inner == {i \in 1..Len(s) : s[i] # " "}
    IN  IF inner = {} THEN <<>>
        ELSE SubSeq(s, CHOOSE i \in inner : \A j \in inner : i <= j,
                       CHOOSE i \in inner : \A j \in inner : i >= j)

\* The values the feed parser hands over: None, a string, a list, or a dict with the keys
\* term, label, text (<<>> when missing or empty) and category (<<>> when the key is
\* missing, <<v>> for the value v).
NoValue == [type |-> "none"]
Str(s) == [type |-> "str", value |-> s]
List(items) == [type |-> "list", items |-> items]
Dict(term, label, text, category) ==
    [type |-> "dict", term |-> term, label |-> label, text |-> text, category |-> category]

\* bool(v)
Bool(v) ==
    IF v.type = "none" THEN FALSE
    ELSE IF v.type = "str" THEN v.value # <<>>
    ELSE IF v.type = "list" THEN v.items # <<>>
    ELSE TRUE

\* a or b, for names
OrName(a, b) == IF a # <<>> THEN a ELSE b

\* lines 256-262
extract_genre_from_item(item) ==
    IF item.type = "dict" THEN OrName(OrName(item.term, item.label), item.text)
    ELSE IF item.type = "str" THEN item.value
    ELSE <<>>

\* [g for g in names if g]
TruthyNames(names) ==
    LET IsTruthy(g) == g # <<>>
    IN  SelectSeq(names, IsTruthy)

\* lines 264-286
extract_nested_genres(cat_item) ==
    IF cat_item.type = "dict"
    THEN LET top_genre == extract_genre_from_item(cat_item)
             nested == cat_item.category
         IN  TruthyNames(<<top_genre>>) \o
             (IF nested = <<>> THEN <<>>
              ELSE IF nested[1].type = "list"
                   THEN TruthyNames([n \in 1..Len(nested[1].items) |->
                                        extract_genre_from_item(nested[1].items[n])])
                   ELSE TruthyNames(<<extract_genre_from_item(nested[1])>>))
    ELSE IF cat_item.type = "str" THEN <<cat_item.value>>
    ELSE <<>>

\* the concatenation of a sequence of sequences
RECURSIVE Extend(_)
Extend(lists) == IF lists = <<>> THEN <<>> ELSE Head(lists) \o Extend(Tail(lists))

\* lines 288-296: what the iTunes category structure adds to genres
ItunesGenres(itunes_cats) ==
    IF ~Bool(itunes_cats) THEN <<>>
    ELSE IF itunes_cats.type = "list"
         THEN Extend([n \in 1..Len(itunes_cats.items) |->
                         extract_nested_genres(itunes_cats.items[n])])
    ELSE IF itunes_cats.type = "dict" THEN extract_nested_genres(itunes_cats)
    ELSE <<>>

\* lines 303-308: what one tag adds
TagGenres(tag) ==
    IF tag.type = "dict" THEN TruthyNames(<<OrName(tag.term, tag.label)>>)
    ELSE IF tag.type = "str" THEN <<tag.value>>
    ELSE <<>>

\* lines 298-310: what the tags field adds to genres
TagsGenres(tags) ==
    IF ~Bool(tags) THEN <<>>
    ELSE IF tags.type = "list"
         THEN Extend([n \in 1..Len(tags.items) |-> TagGenres(tags.items[n])])
    ELSE IF tags.type = "str" THEN <<tags.value>>
    ELSE <<>>

\* lines 314-322: what the categories field adds, its entries being strings
CategoriesGenres(cats) ==
    IF ~Bool(cats) THEN <<>>
    ELSE IF cats.type = "list"
         THEN TruthyNames([n \in 1..Len(cats.items) |-> cats.items[n].value])
    ELSE IF cats.type = "str" THEN <<cats.value>>
    ELSE <<>>

\* a variant that reads the categories field whatever was collected before
CategoriesConsulted_always(genres) == TRUE

\* line 313: if not genres
CategoriesConsulted(genres) == genres = <<>>

\* lines 254-322: genres as collected from the three fields of the parsed feed
CollectGenres(itunes_cats, tags, cats) ==
    LET genres == ItunesGenres(itunes_cats) \o TagsGenres(tags)
    IN  IF CategoriesConsulted(genres) THEN genres \o CategoriesGenres(cats) ELSE genres

\* lines 325-331: remove duplicates ignoring case, keeping the first seen
GenresUnique(genres) ==
    LET RECURSIVE scan(_, _, _)
        scan(n, seen, genres_unique) ==
            IF n > Len(genres) THEN genres_unique
            ELSE LET g == genres[n]
                 IN  IF g # <<>> /\ Lower(g) \notin seen
                     THEN scan(n + 1, seen \cup {Lower(g)}, Append(genres_unique, g))
                     ELSE scan(n + 1, seen, genres_unique)
    IN  scan(1, {}, <<>>)

\* line 335: [g.strip() for g in genre_override.split(",") if g.strip()]
OverrideGenres(genre_override) ==
    LET parts == Split(genre_override, ",")
        stripped == [n \in 1..Len(parts) |-> Strip(parts[n])]
        NonEmpty(g) == g # <<>>
    IN  SelectSeq(stripped, NonEmpty)

\* lines 325-339: the genre list of meta from the collected genres and the CSV override
\* (<<>> for no override, and for the None of line 339)
NormalizeGenres(genres, genre_override) ==
    IF genre_override # <<>> THEN OverrideGenres(genre_override)
    ELSE GenresUnique(genres)

\* An optional string: <<>> is None, <<s>> the string s.
TruthyText(v) == v # <<>> /\ v[1] # <<>>
OrText(a, b) == IF TruthyText(a) THEN a ELSE b

\* The outcome of re.search for a tag in the raw content: found or not, the bytes between
\* the tags as text, and whether they decode as UTF-8.
NoTag == [found |-> FALSE, valid |-> TRUE, text |-> <<>>]
Tag(valid, text) == [found |-> TRUE, valid |-> valid, text |-> text]

\* lines 234-247, the body of the try: the first regex, else the second; decode and strip
AuthorFromXml(itunes_colon, itunes_underscore) ==
    LET itunes_author_match == IF itunes_colon.found THEN itunes_colon ELSE itunes_underscore
    IN  IF ~itunes_author_match.found THEN [exc |-> NoExc, value |-> <<>>]
        ELSE IF ~itunes_author_match.valid
        THEN [exc |-> ValueError, value |-> <<>>]        \* UnicodeDecodeError is a ValueError
        ELSE [exc |-> NoExc, value |-> <<Strip(itunes_author_match.text)>>]

\* lines 248-250: except Exception: pass, itunes_author staying None
AuthorHandler(r) == IF Raised(r) THEN [exc |-> NoExc, value |-> <<>>] ELSE r

\* the chain before the XML search was added: generic author first
ResolveAuthor_old(itunes_author, parsed_itunes_author, parsed_author) ==
    OrText(parsed_author, parsed_itunes_author)

\* line 343: itunes_author or parsed.feed.get("itunes_author") or parsed.feed.get("author")
ResolveAuthor(itunes_author, parsed_itunes_author, parsed_author) ==
    OrText(itunes_author, OrText(parsed_itunes_author, parsed_author))

\* lines 230-251 and 343: the author of meta
NormalizeAuthor(itunes_colon, itunes_underscore, parsed_itunes_author, parsed_author) ==
    LET x == AuthorHandler(AuthorFromXml(itunes_colon, itunes_underscore))
    IN  IF Raised(x) THEN [exc |-> x.exc, author |-> <<>>]
        ELSE [exc |-> NoExc,
              author |-> ResolveAuthor(x.value, parsed_itunes_author, parsed_author)]

EpisodeRow(podcast_id, item) ==
    [podcast_id |-> podcast_id, guid |-> GuidOf(item), pub_date |-> item.published,
     duration_seconds |-> parse_duration(item).value]

\* caught is the exception the handler at line 185 caught (NoExc when none)
InsertResult(st, exc, ret, caught) == [st |-> st, exc |-> exc, ret |-> ret, caught |-> caught]

\* lines 185-207: a uniqueness violation gives False, anything else is raised again
HandleInsertError(st, e) ==
    IF IsUniqueViolationError(e) THEN InsertResult(st, NoExc, FALSE, e)
    ELSE InsertResult(st, e, FALSE, e)

insert_new_episode(st, podcast_id, item, check_plan, insert_plan) ==
    LET guid == GuidOf(item)
    IN  IF ~Truthy(guid) THEN InsertResult(st, NoExc, FALSE, NoExc)
        ELSE LET chk == check_episode_exists(st, podcast_id, guid, check_plan)
             IN  IF Raised(chk) THEN InsertResult(chk.st, chk.exc, FALSE, NoExc)
                 ELSE IF chk.ret THEN InsertResult(chk.st, NoExc, FALSE, NoExc)
                 ELSE IF Raised(parse_duration(item))
                 THEN InsertResult(chk.st, parse_duration(item).exc, FALSE, NoExc)
                 ELSE LET ep == EpisodeRow(podcast_id, item)
                          insert_op(s, c) == InsertRow(s, ep, c)
                          r == retry_db_operation(insert_op, chk.st, insert_plan)
                      IN  IF ~Raised(r) THEN InsertResult(r.st, NoExc, TRUE, NoExc)
                          ELSE HandleInsertError(r.st, r.exc)

\* The request headers fetch_and_process sends
RequestHeaders(etag, last_modified) ==
    (IF Truthy(etag) THEN {"If-None-Match"} ELSE {}) \cup
    (IF Truthy(last_modified) THEN {"If-Modified-Since"} ELSE {})

\* The responses the upstream server can give to a request with these headers:
\* 304 only to a conditional request.
Responses(headers) ==
    {[status |-> "200", ETag |-> h[1], LastModified |-> h[2]] :
        h \in {<<None, None>>, <<"e1", "m1">>}}
    \cup {[status |-> s, ETag |-> None, LastModified |-> None] :
        s \in (IF headers # {} THEN {"304"} ELSE {}) \cup {"404", "ConnectError"}}

\* resp is the outcome of the one client.get of line 220; requests counts the calls of it
fetch_and_process(feed_url, etag, last_modified, resp) ==
    [requests |-> 1] @@
    (IF resp.status = "ConnectError" THEN [exc |-> ConnectError, meta |-> NoMeta, items |-> <<>>]
     ELSE IF resp.status = "304" THEN [exc |-> NoExc, meta |-> NoMeta, items |-> <<>>]
     ELSE IF resp.status # "200" THEN [exc |-> HTTPStatusError, meta |-> NoMeta, items |-> <<>>]
     ELSE [exc |-> NoExc,
           meta |-> Meta(Or(resp.ETag, etag), Or(resp.LastModified, last_modified)),
           items |-> Body(feed_url)])

get_existing_etags(st, feed_url, offset, plan) ==
    LET get_etags(s, c) ==
            Attempt(s, c, s, NoExc, IF feed_url \in DOMAIN s.podcasts THEN <<s.podcasts[feed_url]>> ELSE <<>>)
        r == retry_db_operation(get_etags, st, plan)
        none == [etag |-> None, last_modified |-> None, id |-> None, last_refreshed |-> <<>>]
    IN  IF Raised(r) THEN Result(r.st, r.exc, none)
        ELSE IF r.ret # <<>>
             THEN Result(r.st, NoExc,
                         [etag |-> r.ret[1].etag, last_modified |-> r.ret[1].last_modified,
                          id |-> r.ret[1].id,
                          last_refreshed |-> TimestampText(r.ret[1].last_refreshed, offset)])
             ELSE Result(r.st, NoExc, none)

Min(a, b) == IF a <= b THEN a ELSE b

\* a variant that looks at the first item only
SampleSize_first(items) == Min(1, Len(items))

\* line 430
SampleSize(items) == Min(SampleLimit, Len(items))

\* plans[n] is the network condition of the n-th existence check of the sample
has_new_episodes(st, podcast_id, items, force_check, plans) ==
    IF items = <<>> \/ ~Truthy(podcast_id) THEN [exc |-> NoExc, ret |-> FALSE, checks |-> 0]
    ELSE IF force_check THEN [exc |-> NoExc, ret |-> TRUE, checks |-> 0]
    ELSE LET sample_size == SampleSize(items)
             RECURSIVE scan(_, _)
             scan(n, checks) ==
                 IF n > sample_size THEN [exc |-> NoExc, ret |-> FALSE, checks |-> checks]
                 ELSE LET guid == GuidOf(items[n])
                      IN  IF ~Truthy(guid) THEN scan(n + 1, checks)
                          ELSE LET c == check_episode_exists(st, podcast_id, guid, plans[n])
                               IN  IF Raised(c) THEN [exc |-> c.exc, ret |-> FALSE, checks |-> checks + 1]
                                   ELSE IF ~c.ret THEN [exc |-> NoExc, ret |-> TRUE, checks |-> checks + 1]
                                   ELSE scan(n + 1, checks + 1)
         IN  scan(1, 0)

was_recently_refreshed(last_refreshed_str, t) ==
    IF last_refreshed_str = <<>> THEN FALSE
    ELSE LET last_refreshed == DateParse(last_refreshed_str)
         IN  IF last_refreshed.aware
             THEN FALSE      \* utcnow() - aware datetime: TypeError, caught at line 451
             ELSE (t - last_refreshed.t) < threshold_minutes

----------------------------------------------------------------------------
(* get_active_feed_urls *)

Range(seq) == {seq[n] : n \in 1..Len(seq)}

\* The names bound when line 477 is evaluated: the function's locals (batch_size, line 469)
\* and parameters; no module-level name is a batch size.
BoundNames == {"csv_feed_urls", "csv_set", "cutoff", "batch_size", "feed_to_id"}

\* max(pub_date) of the episodes of podcast pid: <<>> when none has a date
LatestPubDate(st, pid) ==
    LET dates == {r.pub_date[1] : r \in {x \in st.episodes : x.podcast_id = pid /\ x.pub_date # <<>>}}
    IN  IF dates = {} THEN <<>> ELSE <<CHOOSE d \in dates : \A e \in dates : e <= d>>

\* seq[i : i + size] for i in range(0, len(seq), size)
Batches(seq, size) ==
    [b \in 1..((Len(seq) + size - 1) \div size) |->
        SubSeq(seq, (b - 1) * size + 1, Min(b * size, Len(seq)))]

\* batches is the sequence of existence queries made (lines 477-479)
get_active_feed_urls(st, csv_feed_urls, t, agg_fails) ==
    IF csv_feed_urls = <<>> THEN [exc |-> NoExc, ret |-> {}, batches |-> <<>>]
    ELSE IF "feed_url_batch_size" \notin BoundNames
    THEN [exc |-> NameError, ret |-> {}, batches |-> <<>>]
    ELSE
    [batches |-> Batches(csv_feed_urls, batch_size)] @@
    LET csv_set == Range(csv_feed_urls)
        cutoff == t - ACTIVE_DAYS * MinutesPerDay
        feed_to_id == [f \in csv_set \cap DOMAIN st.podcasts |-> st.podcasts[f].id]
        new_feeds == csv_set \ DOMAIN feed_to_id
        active_feeds == {f \in DOMAIN feed_to_id :
                            LET latest == LatestPubDate(st, feed_to_id[f])
                            IN  latest = <<>> \/ latest[1] >= cutoff}
    IN  IF DOMAIN feed_to_id = {} THEN [exc |-> NoExc, ret |-> new_feeds]
        ELSE IF "podcast_id_batch_size" \notin BoundNames THEN [exc |-> NameError, ret |-> {}]
        ELSE IF agg_fails THEN [exc |-> NoExc, ret |-> csv_set]
        ELSE [exc |-> NoExc, ret |-> new_feeds \cup active_feeds]

----------------------------------------------------------------------------
(* delete_podcasts_not_in_csv: the list it builds from the rows of podcasts *)

FeedOrder == <<"A", "B", "C">>

\* a variant that selects by membership of the stored set alone
PodcastsToDelete_all(all_podcasts, csv_feed_urls) ==
    LET Stored(f) == f \in all_podcasts
    IN  SelectSeq(FeedOrder, Stored)

\* a variant with the membership test the other way round
PodcastsToDelete_listed(all_podcasts, csv_feed_urls) ==
    LET InCsv(f) == f \in all_podcasts /\ f \in csv_feed_urls
    IN  SelectSeq(FeedOrder, InCsv)

PodcastsToDelete(all_podcasts, csv_feed_urls) ==
    LET NotInCsv(f) == f \in all_podcasts /\ f \notin csv_feed_urls
    IN  SelectSeq(FeedOrder, NotInCsv)

----------------------------------------------------------------------------
(* Initial states: the environment, feeds.csv and a store left by earlier runs *)

Envs == [BATCH_SIZE : {0, 1},                \* 0 stands for None (lines 32-41)
         FORCE_REFRESH : BOOLEAN, DELETE_MISSING : BOOLEAN,
         ONLY_DAILY_FEEDS : BOOLEAN, REFRESH_ACTIVE_ONLY : BOOLEAN]

CsvChoices == { <<>>, << <<"A", None, TRUE>>, <<"B", None, FALSE>> >> }

Row(f, etag, lm, lr) == [id |-> PodcastId(f), etag |-> etag, last_modified |-> lm, last_refreshed |-> lr]

RowsOf(f, ns) == {StoredRow(EpisodeRow(PodcastId(f), Body(f)[n]), 0) : n \in ns}

\* per feed: no row, or a row and the episodes an earlier (possibly interrupted) run left
FeedStates(f) ==
    CASE f = "A" -> << [rows |-> <<>>, eps |-> {}],
                       [rows |-> <<Row("A", "e1", "m1", <<T0 - 20>>)>>, eps |-> RowsOf("A", 1..SampleLimit)],
                       [rows |-> <<Row("A", "e1", None, <<T0 - 3>>)>>, eps |-> RowsOf("A", {1})] >>
      [] f = "B" -> << [rows |-> <<>>, eps |-> {}],
                       [rows |-> <<Row("B", None, "m1", <<>>)>>, eps |-> RowsOf("B", {1})],
                       [rows |-> <<>>, eps |-> {}] >>
      [] OTHER   -> << [rows |-> <<>>, eps |-> {}],
                       [rows |-> <<Row("C", None, None, <<T0 - 20>>)>>, eps |-> RowsOf("C", {1})],
                       [rows |-> <<>>, eps |-> {}] >>

\* the initial stores: empty; A, B and C stored, A refreshed long ago; A alone, refreshed
\* three minutes ago with one of its episodes in
StoreChoices ==
    {Store([f \in {g \in Feeds : FeedStates(g)[n].rows # <<>>} |-> FeedStates(f)[n].rows[1]],
           UNION {FeedStates(f)[n].eps : f \in Feeds}) : n \in 1..3}

NoCur == [feed_url |-> None, etag |-> None, last_modified |-> None, podcast_id |-> None,
          recently_refreshed |-> FALSE, meta |-> NoMeta, items |-> <<>>, k |-> 0,
          episode_count |-> 0]

NoFetch == [feed |-> None, headers |-> {}, stored |-> {}, status |-> None, requests |-> 0,
            recently |-> FALSE, truly_recent |-> FALSE]
NoDone == [feed |-> None, outcome |-> None, force |-> FALSE, nitems |-> 0,
           attempts |-> <<>>, sampled |-> FALSE]
NoHist == [fetched |-> {}, written |-> {}, inserted |-> {}, ok |-> {}, processed_feeds |-> {},
           nfetch |-> 0, last |-> NoFetch, sampled |-> FALSE, attempts |-> <<>>,
           done |-> NoDone, expected |-> {}, input |-> {}, prev_ok |-> {},
           crashed_at |-> None, prev_interrupted |-> {}, started |-> <<>>,
           prev_processed |-> {}, list_failed |-> FALSE, delete_failed |-> FALSE,
           last_insert |-> [caught |-> NoExc, ret |-> FALSE, raised |-> FALSE],
           to_delete |-> {}, deleted |-> {}, before |-> Store(<<>>, {}), reconciled |-> FALSE]
NoCall == [fn |-> None]

NotCalled == [called |-> FALSE, agg_fails |-> FALSE, exc |-> NoExc, ret |-> {}, batches |-> <<>>]

InitWith(envs, csvs) ==
    /\ env \in envs
    /\ csv \in csvs
    /\ tsOffset \in BOOLEAN
    /\ now = T0
    /\ \E st \in StoreChoices : podcasts = st.podcasts /\ episodes = st.episodes
    /\ pc = "idle"
    /\ runs = 0
    /\ faults = 0
    /\ ticks = 0
    /\ active_urls = NotCalled
    /\ feeds_to_process = <<>>
    /\ idx = 0
    /\ processed = 0 /\ skipped = 0 /\ errors = 0 /\ new_episodes_added = 0 /\ deleted_count = 0
    /\ cur = NoCur
    /\ podcasts_to_delete = <<>>
    /\ workers = <<>>
    /\ call = NoCall
    /\ hist = NoHist

Init == InitWith(Envs, CsvChoices)

----------------------------------------------------------------------------
(* run_once *)

Stopped == {"idle", "done", "aborted", "returned", "crashed"}
Running == {"loop", "upsert", "sample", "items", "deleting", "summary"}

Urls(rows) == [n \in 1..Len(rows) |-> rows[n][1]]
IsDaily(row) == row[3]
BatchLimited == env.BATCH_SIZE > 0
ActiveOnlyInEffect == env.REFRESH_ACTIVE_ONLY /\ ~BatchLimited

\* the plans a store call may run under: faults are injected up to MaxFaults
Plans(F) == {CleanPlan} \cup (IF faults < MaxFaults THEN F ELSE {})
Cost(plan) == IF plan = CleanPlan THEN 0 ELSE 1

\* The feeds the activity criteria call active: new, no dated episode, or a latest
\* episode at or after now minus the window.
CriteriaActive(st, urls, t) ==
    {f \in Range(urls) :
        \/ f \notin DOMAIN st.podcasts
        \/ LatestPubDate(st, st.podcasts[f].id) = <<>>
        \/ LatestPubDate(st, st.podcasts[f].id)[1] >= t - ACTIVE_DAYS * MinutesPerDay}

\* lines 580-617: read the CSV, filter, and set the counters
StartRun(limit) ==
    /\ pc \in Stopped
    /\ runs < limit
    /\ \E agg_fails \in BOOLEAN :
        LET st == Store(podcasts, episodes)
            all_feeds == csv
            feeds1 == IF env.ONLY_DAILY_FEEDS THEN SelectSeq(all_feeds, IsDaily) ELSE all_feeds
            none_daily == env.ONLY_DAILY_FEEDS /\ feeds1 = <<>>
            filter == ActiveOnlyInEffect /\ ~none_daily
            csv_urls == Urls(feeds1)
            act == IF filter
                   THEN [called |-> TRUE, agg_fails |-> agg_fails] @@
                        get_active_feed_urls(st, csv_urls, now, agg_fails)
                   ELSE NotCalled
            InActive(row) == row[1] \in act.ret
            feeds2 == IF filter THEN SelectSeq(feeds1, InActive) ELSE feeds1
            feeds3 == IF BatchLimited
                      THEN SubSeq(feeds2, 1, Min(env.BATCH_SIZE, Len(feeds2)))
                      ELSE feeds2
        IN  /\ (~filter => ~agg_fails)
            /\ active_urls' = act
            /\ feeds_to_process' = IF none_daily \/ Raised(act) THEN <<>> ELSE feeds3
            /\ pc' = IF none_daily THEN "returned"
                     ELSE IF Raised(act) THEN "aborted" ELSE "loop"
            /\ hist' = [NoHist EXCEPT !.prev_ok = hist.ok,
                                      !.prev_processed = hist.processed_feeds,
                                      !.started = <<now>>,
                                      !.prev_interrupted =
                                          IF /\ pc = "crashed"
                                             /\ hist.crashed_at \in {"sample", "items"}
                                             /\ cur.k <= Len(cur.items)
                                          THEN {cur.feed_url} ELSE {},
                                      !.input = IF filter THEN Range(csv_urls) ELSE {},
                                      !.expected = IF filter THEN CriteriaActive(st, csv_urls, now) ELSE {}]
    /\ runs' = runs + 1
    /\ idx' = 1
    /\ processed' = 0 /\ skipped' = 0 /\ errors' = 0 /\ new_episodes_added' = 0
    /\ deleted_count' = 0
    /\ cur' = NoCur
    /\ podcasts_to_delete' = <<>>
    /\ UNCHANGED <<env, csv, tsOffset, now, podcasts, episodes, faults, ticks, workers, call>>

\* a variant without the per-feed except clause: an exception leaves run_once
AfterFeed_raise(outcome) == IF outcome = "error" THEN "aborted" ELSE "loop"

\* lines 677, 697, 720 and 722-735: where run_once goes after a feed's attempt; the
\* except clause of line 722 counts the exception and the loop goes on
AfterFeed(outcome) == "loop"

\* a variant that forgets to count a feed skipped for having no new episodes
CountsAs_unchanged(outcome) ==
    IF outcome = "processed" THEN "processed"
    ELSE IF outcome = "unchanged" THEN "skipped"
    ELSE IF outcome = "no_new" THEN "nothing"
    ELSE "errors"

\* lines 669, 689, 710 and 723: the counter an attempt's outcome adds one to
CountsAs(outcome) ==
    IF outcome = "processed" THEN "processed"
    ELSE IF outcome \in {"unchanged", "no_new"} THEN "skipped"
    ELSE "errors"

\* the end of one iteration of the feed loop (lines 645-735) with the given outcome
EndFeed(outcome, st, h) ==
    /\ podcasts' = st.podcasts
    /\ episodes' = st.episodes
    /\ processed' = IF CountsAs(outcome) = "processed" THEN processed + 1 ELSE processed
    /\ skipped' = IF CountsAs(outcome) = "skipped" THEN skipped + 1 ELSE skipped
    /\ errors' = IF CountsAs(outcome) = "errors" THEN errors + 1 ELSE errors
    /\ new_episodes_added' = IF outcome = "processed"
                             THEN new_episodes_added + cur.episode_count
                             ELSE new_episodes_added
    /\ deleted_count' = deleted_count
    /\ idx' = idx + 1
    /\ pc' = AfterFeed(outcome)
    /\ cur' = NoCur
    /\ hist' = [h EXCEPT
                 !.ok = IF outcome = "error" THEN @ ELSE @ \cup {feeds_to_process[idx][1]},
                 !.processed_feeds = IF outcome = "processed"
                                     THEN @ \cup {feeds_to_process[idx][1]} ELSE @,
                 !.done = [feed |-> feeds_to_process[idx][1], outcome |-> outcome,
                           force |-> cur.recently_refreshed \/ env.FORCE_REFRESH,
                           nitems |-> Len(cur.items), attempts |-> h.attempts,
                           sampled |-> h.sampled],
                 !.sampled = FALSE, !.attempts = <<>>]

\* a variant with the crash-recovery test inverted
SkipUnchanged_inverted(meta, recently_refreshed) == meta.none /\ recently_refreshed

SkipUnchanged(meta, recently_refreshed) == meta.none /\ ~recently_refreshed

\* lines 649-677: look up the tokens, fetch, and skip an unchanged feed
FetchFeed ==
    /\ pc = "loop"
    /\ idx <= Len(feeds_to_process)
    /\ \E plan \in Plans(ReadFaults) :
        LET feed_url == feeds_to_process[idx][1]
            st == Store(podcasts, episodes)
            none == [etag |-> None, last_modified |-> None, id |-> None, last_refreshed |-> <<>>]
            ex == IF env.FORCE_REFRESH THEN Result(st, NoExc, none)
                  ELSE get_existing_etags(st, feed_url, tsOffset, plan)
            recently_refreshed == was_recently_refreshed(ex.ret.last_refreshed, now)
            bypass == recently_refreshed /\ ~env.FORCE_REFRESH
            etag == IF bypass THEN None ELSE ex.ret.etag
            last_modified == IF bypass THEN None ELSE ex.ret.last_modified
            headers == RequestHeaders(etag, last_modified)
            stored == feed_url \in DOMAIN podcasts
        IN  /\ (env.FORCE_REFRESH => plan = CleanPlan)
            /\ faults' = faults + Cost(plan)
            /\ IF Raised(ex)
               THEN EndFeed("error", st, hist)
               ELSE \E resp \in Responses(headers) :
                    LET f == fetch_and_process(feed_url, etag, last_modified, resp)
                        h == [hist EXCEPT
                                !.fetched = @ \cup {feed_url},
                                !.nfetch = @ + 1,
                                !.last = [feed |-> feed_url, headers |-> headers,
                                          stored |-> IF stored
                                                     THEN RequestHeaders(podcasts[feed_url].etag,
                                                                         podcasts[feed_url].last_modified)
                                                     ELSE {},
                                          status |-> resp.status,
                                          requests |-> f.requests,
                                          recently |-> recently_refreshed,
                                          truly_recent |-> /\ stored
                                                           /\ podcasts[feed_url].last_refreshed # <<>>
                                                           /\ now - podcasts[feed_url].last_refreshed[1]
                                                                < threshold_minutes]]
                    IN  IF Raised(f) THEN EndFeed("error", st, h)
                        ELSE IF SkipUnchanged(f.meta, recently_refreshed)
                        THEN EndFeed("unchanged", st, h)
                        ELSE /\ pc' = "upsert"
                             /\ cur' = [feed_url |-> feed_url, etag |-> etag,
                                        last_modified |-> last_modified,
                                        podcast_id |-> ex.ret.id,
                                        recently_refreshed |-> recently_refreshed,
                                        meta |-> f.meta, items |-> f.items, k |-> 1,
                                        episode_count |-> 0]
                             /\ hist' = h
                             /\ UNCHANGED <<podcasts, episodes, idx, countVars>>
    /\ UNCHANGED <<env, csv, tsOffset, now, runs, ticks, active_urls, feeds_to_process,
                   podcasts_to_delete, workers, call>>

PerFeedUnchanged == <<env, csv, tsOffset, now, runs, ticks, active_urls, feeds_to_process,
                      podcasts_to_delete, workers, call>>

\* lines 679-681: upsert_podcast, which sets last_refreshed
Upsert ==
    /\ pc = "upsert"
    /\ \E plan \in Plans(WriteFaults) :
        LET st == Store(podcasts, episodes)
            r == upsert_podcast(st, cur.feed_url, cur.meta, now, plan)
            h == [hist EXCEPT !.written = IF ~Raised(r) \/ r.st # st
                                          THEN @ \cup {cur.feed_url} ELSE @]
        IN  /\ faults' = faults + Cost(plan)
            /\ IF Raised(r)
               THEN EndFeed("error", r.st, h)
               ELSE /\ podcasts' = r.st.podcasts
                    /\ episodes' = r.st.episodes
                    /\ pc' = "sample"
                    /\ cur' = [cur EXCEPT !.podcast_id = r.ret.id]
                    /\ hist' = h
                    /\ UNCHANGED <<idx, countVars>>
    /\ UNCHANGED PerFeedUnchanged

\* line 685
\* a variant that forgets the force-refresh flag
ForceEpisodeCheck_recent(recently_refreshed, force_refresh) == recently_refreshed

ForceEpisodeCheck(recently_refreshed, force_refresh) == recently_refreshed \/ force_refresh

\* lines 683-697: the sampling pre-check, unless the full pass is forced
CheckNew ==
    /\ pc = "sample"
    /\ \E fail_at \in 0..Min(SampleLimit, Len(cur.items)), fplan \in Plans(ReadFaults) :
        LET st == Store(podcasts, episodes)
            force_episode_check == ForceEpisodeCheck(cur.recently_refreshed, env.FORCE_REFRESH)
            plans == [n \in 1..Len(cur.items) |-> IF n = fail_at THEN fplan ELSE CleanPlan]
            hn == IF force_episode_check
                  THEN [exc |-> NoExc, ret |-> TRUE, checks |-> 0]
                  ELSE has_new_episodes(st, cur.podcast_id, cur.items, FALSE, plans)
            h == [hist EXCEPT !.sampled = ~force_episode_check]
        IN  /\ (fail_at = 0) <=> (fplan = CleanPlan)
            /\ (force_episode_check => fail_at = 0)
            /\ faults' = faults + Cost(fplan)
            /\ IF Raised(hn) THEN EndFeed("error", st, h)
               ELSE IF ~force_episode_check /\ ~hn.ret THEN EndFeed("no_new", st, h)
               ELSE /\ pc' = "items"
                    /\ hist' = h
                    /\ UNCHANGED <<podcasts, episodes, cur, idx, countVars>>
    /\ UNCHANGED PerFeedUnchanged

\* lines 705-707: one iteration of the item loop
InsertEpisode ==
    /\ pc = "items"
    /\ cur.k <= Len(cur.items)
    /\ \E cp \in Plans(ReadFaults), ip \in Plans(WriteFaults) :
        LET st == Store(podcasts, episodes)
            r == insert_new_episode(st, cur.podcast_id, cur.items[cur.k], cp, ip)
            h == [hist EXCEPT !.attempts = Append(@, cur.k),
                              !.last_insert = [caught |-> r.caught, ret |-> r.ret,
                                               raised |-> Raised(r)],
                              !.inserted = @ \cup (r.st.episodes \ st.episodes),
                              !.written = IF r.st # st THEN @ \cup {cur.feed_url} ELSE @]
        IN  /\ Cost(cp) + Cost(ip) <= 1
            /\ faults' = faults + Cost(cp) + Cost(ip)
            /\ IF Raised(r)
               THEN EndFeed("error", r.st, h)
               ELSE /\ podcasts' = r.st.podcasts
                    /\ episodes' = r.st.episodes
                    /\ cur' = [cur EXCEPT !.k = @ + 1,
                                          !.episode_count = IF r.ret THEN @ + 1 ELSE @]
                    /\ hist' = h
                    /\ UNCHANGED <<pc, idx, countVars>>
    /\ UNCHANGED PerFeedUnchanged

\* lines 709-720: the feed is counted as processed
FinishFeed ==
    /\ pc = "items"
    /\ cur.k > Len(cur.items)
    /\ EndFeed("processed", Store(podcasts, episodes), hist)
    /\ UNCHANGED <<faults>>
    /\ UNCHANGED PerFeedUnchanged

\* a variant that forgets the batch limit
ReconcileEnabled_nobatch == env.DELETE_MISSING /\ ~env.ONLY_DAILY_FEEDS

ReconcileEnabled == env.DELETE_MISSING /\ ~BatchLimited /\ ~env.ONLY_DAILY_FEEDS

\* a variant that leaves the feed loop one feed early
LoopExhausted_early(i, feeds) == i >= Len(feeds)

\* line 645: the for loop has gone through feeds_to_process
LoopExhausted(i, feeds) == i > Len(feeds)

\* lines 737-743 and 544-563: after the loop, list the podcasts not in the CSV
EndLoop ==
    /\ pc = "loop"
    /\ LoopExhausted(idx, feeds_to_process)
    /\ \E plan \in Plans(ReadFaults) :
        LET st == Store(podcasts, episodes)
            csv_feed_urls == Range(Urls(csv))
            get_all_podcasts(s, c) == Attempt(s, c, s, NoExc, DOMAIN s.podcasts)
            all_podcasts == retry_db_operation(get_all_podcasts, st, plan)
            listing == ReconcileEnabled /\ csv_feed_urls # {}
            to_delete == IF listing /\ ~Raised(all_podcasts)
                         THEN PodcastsToDelete(all_podcasts.ret, csv_feed_urls)
                         ELSE <<>>
        IN  /\ (~listing => plan = CleanPlan)
            /\ faults' = faults + Cost(plan)
            /\ podcasts_to_delete' = to_delete
            /\ pc' = IF listing /\ Raised(all_podcasts) THEN "aborted"
                     ELSE IF to_delete = <<>> THEN "summary" ELSE "deleting"
            /\ hist' = [hist EXCEPT !.reconciled = ReconcileEnabled,
                                    !.before = st,
                                    !.list_failed = listing /\ Raised(all_podcasts)]
    /\ UNCHANGED <<env, csv, tsOffset, now, podcasts, episodes, runs, ticks, active_urls,
                   feeds_to_process, idx, countVars, cur, workers, call>>

\* lines 567-575: one iteration of the delete loop
DeleteNext ==
    /\ pc = "deleting"
    /\ \E plan \in Plans(WriteFaults) :
        LET st == Store(podcasts, episodes)
            feed_url == Head(podcasts_to_delete)
            delete_op(s, c) == DeleteRow(s, feed_url, c)
            r == retry_db_operation(delete_op, st, plan)
        IN  /\ faults' = faults + Cost(plan)
            /\ podcasts' = r.st.podcasts
            /\ episodes' = r.st.episodes
            /\ deleted_count' = IF Raised(r) THEN deleted_count ELSE deleted_count + 1
            /\ hist' = [hist EXCEPT !.delete_failed = @ \/ Raised(r),
                                    !.deleted = IF Raised(r) THEN @ ELSE @ \cup {feed_url}]
    /\ podcasts_to_delete' = Tail(podcasts_to_delete)
    /\ pc' = IF Tail(podcasts_to_delete) = <<>> THEN "summary" ELSE "deleting"
    /\ UNCHANGED <<env, csv, tsOffset, now, runs, ticks, active_urls, feeds_to_process, idx,
                   processed, skipped, errors, new_episodes_added, cur, workers, call>>

\* lines 752-758: the final counts are printed
Summary ==
    /\ pc = "summary"
    /\ pc' = "done"
    /\ UNCHANGED <<env, csv, tsOffset, now, podcasts, episodes, runs, faults, ticks,
                   active_urls, feeds_to_process, idx, countVars, cur, podcasts_to_delete, workers, call, hist>>

\* the process is killed during a run
Crash ==
    /\ pc \in Running
    /\ faults < MaxFaults
    /\ faults' = faults + 1
    /\ pc' = "crashed"
    /\ hist' = [hist EXCEPT !.crashed_at = pc]
    /\ UNCHANGED <<env, csv, tsOffset, now, podcasts, episodes, runs, ticks,
                   active_urls, feeds_to_process, idx, countVars, cur, podcasts_to_delete, workers, call>>

\* time passes between runs
Tick ==
    /\ pc \in Stopped
    /\ 0 < runs /\ runs < MaxRuns
    /\ ticks < MaxTicks
    /\ \E d \in {3, 10} : now' = now + d
    /\ ticks' = ticks + 1
    /\ UNCHANGED <<env, csv, tsOffset, podcasts, episodes, pc, runs, faults,
                   active_urls, feeds_to_process, idx, countVars, cur, podcasts_to_delete, workers, call, hist>>

RunStep ==
    \/ FetchFeed
    \/ Upsert
    \/ CheckNew
    \/ InsertEpisode
    \/ FinishFeed
    \/ EndLoop
    \/ DeleteNext
    \/ Summary

\* One invocation of run_once, under any environment, over any of the initial stores.
Next ==
    \/ StartRun(1)
    \/ RunStep

Spec == Init /\ [][Next]_vars

\* Successive invocations over the one-feed CSV, with kills and the clock advancing between them.
InitRerun ==
    InitWith({e \in Envs : e.BATCH_SIZE = 0 /\ ~e.ONLY_DAILY_FEEDS /\ ~e.REFRESH_ACTIVE_ONLY},
             { << <<"A", None, TRUE>> >> })

NextRerun ==
    \/ StartRun(MaxRuns)
    \/ RunStep
    \/ Crash
    \/ Tick

SpecRerun == InitRerun /\ [][NextRerun]_vars

----------------------------------------------------------------------------
(* Concurrent callers of insert_new_episode (lines 127-207), one store call a step *)

\* the conditions one store call may run under
CondsNow == {"clean"} \cup (IF faults < MaxFaults THEN Conds \ {"clean"} ELSE {})

Job(f, n) == [podcast_id |-> PodcastId(f), item |-> Body(f)[n]]
Jobs == {Job("B", 1), Job("B", 2), Job("B", 3), Job("A", 1)}

Worker(job) == [pc |-> "start", podcast_id |-> job.podcast_id, item |-> job.item,
                attempt |-> 0, ret |-> FALSE, exc |-> NoExc, caught |-> NoExc]

InitWorkers ==
    /\ env = [BATCH_SIZE |-> 0, FORCE_REFRESH |-> FALSE, DELETE_MISSING |-> FALSE,
              ONLY_DAILY_FEEDS |-> FALSE, REFRESH_ACTIVE_ONLY |-> FALSE]
    /\ csv = <<>>
    /\ tsOffset = FALSE
    /\ now = T0
    /\ \E st \in StoreChoices :
          /\ DOMAIN st.podcasts = Feeds
          /\ podcasts = st.podcasts
          /\ episodes \in {{}, st.episodes}
    /\ pc = "idle"
    /\ runs = 0
    /\ faults = 0
    /\ ticks = 0
    /\ active_urls = NotCalled
    /\ feeds_to_process = <<>>
    /\ idx = 0
    /\ processed = 0 /\ skipped = 0 /\ errors = 0 /\ new_episodes_added = 0 /\ deleted_count = 0
    /\ cur = NoCur
    /\ podcasts_to_delete = <<>>
    /\ workers \in [1..NumWorkers -> {Worker(j) : j \in Jobs}]
    /\ call = NoCall
    /\ hist = NoHist

WorkerUnchanged == <<env, csv, tsOffset, now, pc, runs, ticks, active_urls, feeds_to_process,
                     idx, countVars, cur, podcasts_to_delete, call, hist>>

\* lines 132-138: derive the guid and check whether the episode exists
WCheck(w) ==
    /\ workers[w].pc = "start"
    /\ \E plan \in Plans(ReadFaults) :
        LET me == workers[w]
            st == Store(podcasts, episodes)
            guid == GuidOf(me.item)
            chk == check_episode_exists(st, me.podcast_id, guid, plan)
        IN  /\ (~Truthy(guid) => plan = CleanPlan)
            /\ faults' = faults + Cost(plan)
            /\ workers' = [workers EXCEPT ![w] =
                  IF ~Truthy(guid) THEN [me EXCEPT !.pc = "done", !.ret = FALSE]
                  ELSE IF Raised(chk) THEN [me EXCEPT !.pc = "done", !.exc = chk.exc]
                  ELSE IF chk.ret THEN [me EXCEPT !.pc = "done", !.ret = FALSE]
                  ELSE [me EXCEPT !.pc = "insert"]]
    /\ UNCHANGED <<podcasts, episodes>>
    /\ UNCHANGED WorkerUnchanged

\* lines 180-207: one attempt of the insert under retry_db_operation, and the handler
WInsert(w) ==
    /\ workers[w].pc = "insert"
    /\ \E cond \in CondsNow :
        LET me == workers[w]
            st == Store(podcasts, episodes)
            r == InsertRow(st, EpisodeRow(me.podcast_id, me.item), cond)
            d == RetryDecision(r, me.attempt)
            handled == HandleInsertError(r.st, r.exc)
        IN  /\ faults' = faults + (IF cond = "clean" THEN 0 ELSE 1)
            /\ podcasts' = r.st.podcasts
            /\ episodes' = r.st.episodes
            /\ workers' = [workers EXCEPT ![w] =
                  IF d = "return" THEN [me EXCEPT !.pc = "done", !.ret = TRUE]
                  ELSE IF d = "retry" THEN [me EXCEPT !.attempt = @ + 1]
                  ELSE [me EXCEPT !.pc = "done", !.ret = handled.ret, !.exc = handled.exc,
                                  !.caught = handled.caught]]
    /\ UNCHANGED WorkerUnchanged

NextWorkers == \E w \in DOMAIN workers : WCheck(w) \/ WInsert(w)

SpecWorkers == InitWorkers /\ [][NextWorkers]_vars

----------------------------------------------------------------------------
(* Functions taken alone: each step is one call, recorded in call *)

CallUnchanged == <<env, csv, tsOffset, now, podcasts, episodes, pc, runs, faults, ticks,
                   active_urls, feeds_to_process, idx, countVars, cur, podcasts_to_delete,
                   workers, hist>>

\* What one invocation of a wrapped operation can do: return, or raise one of these
\* (ReadTimeout is httpx.TimeoutException's, APIError the store client's).
Outcomes == {"ok", "RemoteProtocolError", "NetworkError", "ConnectError", "ReadTimeout", "APIError"}

AttemptName == <<"attempt 1", "attempt 2", "attempt 3", "attempt 4">>

\* The wrapped operation: n counts its invocations so far, o is the outcome of this one.
Invoke(n, o) ==
    [st |-> n + 1,
     exc |-> IF o = "ok" THEN NoExc
             ELSE [kind |-> o, code |-> None, text |-> {AttemptName[n + 1]}],
     ret |-> IF o = "ok" THEN AttemptName[n + 1] ELSE None]

\* retry_db_operation(func) with the default max_retries, for every sequence of outcomes
CallRetry ==
    /\ call = NoCall
    /\ \E plan \in [1..max_retries -> Outcomes] :
        LET r == retry_db_operation(Invoke, 0, plan)
        IN  call' = [fn |-> "retry_db_operation", plan |-> plan, invoked |-> r.st,
                     exc |-> r.exc, ret |-> r.ret, sleeps |-> r.sleeps]
    /\ UNCHANGED CallUnchanged

DurationChars == {"0", "1", "2", "3", ":", "x"}
Strings(chars, n) == UNION {[1..k -> chars] : k \in 0..n}

\* insert_new_episode for an item whose duration is any string of at most MaxDurationLen
\* characters, given as itunes_duration or as duration
CallInsert ==
    /\ call = NoCall
    /\ \E dur \in Strings(DurationChars, MaxDurationLen), field \in {"itunes_duration", "duration"} :
        LET item == [Item("d1", None, <<>>) EXCEPT ![field] = dur]
            st == Store(podcasts, episodes)
            r == insert_new_episode(st, PodcastId("A"), item, CleanPlan, CleanPlan)
        IN  /\ podcasts' = r.st.podcasts
            /\ episodes' = r.st.episodes
            /\ call' = [fn |-> "insert_new_episode", dur |-> dur, exc |-> r.exc, ret |-> r.ret,
                        rows |-> r.st.episodes \ st.episodes]
    /\ UNCHANGED <<env, csv, tsOffset, now, pc, runs, faults, ticks, active_urls,
                   feeds_to_process, idx, countVars, cur, podcasts_to_delete, workers, hist>>

GenreNames == {<<>>, <<"F">>, <<"f">>, <<"H">>}
OverrideChars == {"F", "f", ",", " "}

\* the genre normalization of fetch_and_process for every collected list of at most
\* MaxGenres names and every override string of at most MaxOverrideLen characters
CallGenres ==
    /\ call = NoCall
    /\ \E genres \in Strings(GenreNames, MaxGenres),
          genre_override \in Strings(OverrideChars, MaxOverrideLen) :
        call' = [fn |-> "genres", genres |-> genres, genre_override |-> genre_override,
                 genre |-> NormalizeGenres(genres, genre_override)]
    /\ UNCHANGED CallUnchanged

Tags == {NoTag} \cup {Tag(FALSE, <<"a">>)}
           \cup {Tag(TRUE, t) : t \in Strings({"a", " "}, MaxAuthorLen)}
ParserFields == {<<>>, << <<>> >>, << <<"b">> >>, << <<"c">> >>}

\* the author normalization of fetch_and_process for every outcome of the two searches of
\* the raw content and every pair of parser fields
CallAuthor ==
    /\ call = NoCall
    /\ \E itunes_colon \in Tags, itunes_underscore \in Tags,
          parsed_itunes_author \in ParserFields, parsed_author \in ParserFields :
        LET r == NormalizeAuthor(itunes_colon, itunes_underscore, parsed_itunes_author,
                                 parsed_author)
        IN  call' = [fn |-> "author", itunes_colon |-> itunes_colon,
                     itunes_underscore |-> itunes_underscore,
                     parsed_itunes_author |-> parsed_itunes_author,
                     parsed_author |-> parsed_author, exc |-> r.exc, author |-> r.author]
    /\ UNCHANGED CallUnchanged

CategoryNames == {<<"F">>, <<"H">>}
Leaf(name) == Dict(name, <<>>, <<>>, <<>>)

\* the values of a "category" key over the given sub-categories: the key missing, one
\* sub-category, or a list of at most MaxSubcategories of them
Nested(subs) ==
    {<<>>} \cup {<<c>> : c \in subs}
           \cup {<<List(l)>> : l \in Strings(subs, MaxSubcategories)}

\* category structures of three levels, two levels and one level
Level3 == {Leaf(<<"F">>), Dict(<<>>, <<"H">>, <<>>, <<>>), Dict(<<>>, <<>>, <<"F">>, <<>>),
           Leaf(<<>>), Str(<<"H">>)}
Level2 == {Dict(name, <<>>, <<>>, nested) : name \in CategoryNames, nested \in Nested(Level3)}
Level1 == {Dict(name, <<>>, <<>>, nested) : name \in CategoryNames, nested \in Nested(Level2)}

\* extract_nested_genres for every category structure of at most three levels
CallNested ==
    /\ call = NoCall
    /\ \E cat_item \in Level1 \cup Level3 :
        call' = [fn |-> "extract_nested_genres", cat_item |-> cat_item,
                 extracted |-> extract_nested_genres(cat_item)]
    /\ UNCHANGED CallUnchanged

ItunesChoices ==
    {NoValue, Str(<<"F">>), Leaf(<<"F">>), List(<<Str(<<>>)>>),
     Dict(<<"F">>, <<>>, <<>>, <<Leaf(<<"H">>)>>),
     List(<<Leaf(<<"H">>), Dict(<<>>, <<"f">>, <<>>, <<List(<<Str(<<"F">>)>>)>>)>>)}
TagsChoices ==
    {NoValue, Str(<<"H">>), List(<<>>), List(<<Dict(<<>>, <<>>, <<"H">>, <<>>)>>),
     List(<<Leaf(<<"f">>), Str(<<"H">>)>>)}
CategoriesChoices == {NoValue, Str(<<"F">>), List(<<Str(<<"H">>), Str(<<>>), Str(<<"f">>)>>)}

\* the genre collection of fetch_and_process for these values of the parsed feed's three
\* fields and every override string of at most MaxOverrideLen characters
CallCollect ==
    /\ call = NoCall
    /\ \E itunes_cats \in ItunesChoices, tags \in TagsChoices, cats \in CategoriesChoices,
          genre_override \in Strings(OverrideChars, MaxOverrideLen) :
        LET genres == CollectGenres(itunes_cats, tags, cats)
        IN  call' = [fn |-> "collect", itunes_cats |-> itunes_cats, tags |-> tags,
                     cats |-> cats, genre_override |-> genre_override, genres |-> genres,
                     genre |-> NormalizeGenres(genres, genre_override)]
    /\ UNCHANGED CallUnchanged

InitCalls ==
    /\ InitWith({e \in Envs : e.BATCH_SIZE = 0 /\ ~e.FORCE_REFRESH /\ ~e.DELETE_MISSING
                              /\ ~e.ONLY_DAILY_FEEDS /\ ~e.REFRESH_ACTIVE_ONLY}, {<<>>})
    /\ ~tsOffset
    /\ episodes = {}

NextCalls ==
    \/ CallRetry
    \/ CallInsert
    \/ CallGenres
    \/ CallAuthor
    \/ CallNested
    \/ CallCollect

SpecCalls == InitCalls /\ [][NextCalls]_vars

----------------------------------------------------------------------------
(* Properties *)

RowFeeds(rows) == {f \in Feeds : \E r \in rows : r.podcast_id = PodcastId(f)}
Ascending(seq) == seq = [n \in 1..Len(seq) |-> n]

KeyRows(podcast_id, guid) == {r \in episodes : r.podcast_id = podcast_id /\ r.guid = guid}

\* C2: in every state no two episode rows share (podcast_id, guid), and once a worker's
\* insert_new_episode has returned for an item with a guid, the store holds exactly one
\* row for that (podcast_id, guid), under every interleaving of the workers' checks and inserts.
C2_OneRowPerKey ==
    /\ \A r1, r2 \in episodes : SameKey(r1, r2) => r1 = r2
    /\ \A w \in DOMAIN workers :
          (workers[w].pc = "done" /\ workers[w].exc = NoExc /\ Truthy(GuidOf(workers[w].item)))
              => Cardinality(KeyRows(workers[w].podcast_id, GuidOf(workers[w].item))) = 1

\* C2 witness: two workers passed the existence check for the same (podcast_id, guid)
\* before either inserted; one inserted, the other met the uniqueness violation.
C2_Witness ==
    \E w1, w2 \in DOMAIN workers :
        /\ w1 # w2
        /\ workers[w1].pc = "done" /\ workers[w2].pc = "done"
        /\ workers[w1].podcast_id = workers[w2].podcast_id
        /\ GuidOf(workers[w1].item) = GuidOf(workers[w2].item)
        /\ workers[w1].ret
        /\ workers[w2].caught = UniqueViolation
        /\ ~workers[w2].ret

InsertEpisodeStep == pc = "items" /\ cur.k <= Len(cur.items) /\ pc' # "crashed"

\* C3: when the store rejects the insert with a uniqueness violation, insert_new_episode
\* returns False and raises nothing, and the feed's error count is not touched; any other
\* failure of the insert is raised to the caller.
C3_UniqueViolationIsNoError ==
    [][InsertEpisodeStep =>
        /\ hist'.last_insert.caught = UniqueViolation =>
              /\ ~hist'.last_insert.ret
              /\ ~hist'.last_insert.raised
              /\ errors' = errors
              /\ pc' = "items"
        /\ hist'.last_insert.caught \notin {NoExc, UniqueViolation} =>
              /\ hist'.last_insert.raised
              /\ errors' = errors + 1]_vars

\* C3 witness: an insert met the uniqueness violation (its first attempt was applied and
\* the response lost, the retry was rejected) and the item loop went on.
C3_Witness ==
    /\ pc = "items"
    /\ hist.last_insert.caught = UniqueViolation

FetchStep == pc = "loop" /\ hist'.nfetch = hist.nfetch + 1

\* C4: a fetch answered 304 for a feed not on the crash-recovery path writes no podcast
\* row and no episode row, and the feed is counted as skipped.
C4_NotModifiedWritesNothing ==
    [][(FetchStep /\ hist'.last.status = "304" /\ ~hist'.last.recently) =>
        /\ podcasts' = podcasts
        /\ episodes' = episodes
        /\ skipped' = skipped + 1
        /\ processed' = processed /\ errors' = errors
        /\ new_episodes_added' = new_episodes_added
        /\ pc' = "loop" /\ idx' = idx + 1]_vars

\* C4 witness: a feed was answered 304 and skipped as unchanged.
C4_Witness ==
    /\ hist.last.status = "304"
    /\ ~hist.last.recently
    /\ hist.done.feed = hist.last.feed
    /\ hist.done.outcome = "unchanged"

\* C5: a feed whose stored last_refreshed is less than the threshold before now is fetched
\* with no conditional header, in whatever textual form the store returns the timestamp;
\* a feed whose last_refreshed is missing or older is fetched with its stored tokens
\* (read here: unless the force-refresh flag is set).
C5_RecentFetchedWithoutTokens ==
    hist.nfetch > 0 =>
        /\ hist.last.truly_recent => hist.last.headers = {}
        /\ (~hist.last.truly_recent /\ ~env.FORCE_REFRESH) => hist.last.headers = hist.last.stored

\* C6 (as stated): for a fetched feed on the crash-recovery or force-refresh path the
\* sample is never consulted and insert_new_episode is attempted for every item, in order.
C6_ForcedPassAttemptsEveryItem ==
    (hist.done.force /\ hist.done.nitems > 0) =>
        /\ ~hist.done.sampled
        /\ Ascending(hist.done.attempts)
        /\ Len(hist.done.attempts) = hist.done.nitems

\* C6 (amended): for a fetched feed on the crash-recovery or force-refresh path the sample
\* is never consulted, and insert_new_episode is attempted for the items in feed order:
\* for every item when no store call of the feed raises, and otherwise up to the call
\* that raised (the upsert, or the insert of an item), which ends the feed's attempt.
C6_ForcedPassAttemptsInOrder ==
    /\ (hist.done.force /\ hist.done.nitems > 0) =>
          /\ ~hist.done.sampled
          /\ Ascending(hist.done.attempts)
          /\ hist.done.outcome \in {"processed", "error"}
          /\ hist.done.outcome = "processed" => Len(hist.done.attempts) = hist.done.nitems
    /\ (pc \in {"sample", "items"} /\ (cur.recently_refreshed \/ env.FORCE_REFRESH)) =>
          /\ ~hist.sampled
          /\ Ascending(hist.attempts)
          /\ pc = "items" => Len(hist.attempts) = cur.k - 1

\* C6 witness: a feed on the forced path was processed to its last item.
C6_Witness ==
    /\ hist.done.force
    /\ hist.done.outcome = "processed"
    /\ hist.done.nitems > 1
    /\ Len(hist.done.attempts) = hist.done.nitems

\* C7: get_active_feed_urls returns exactly the input feeds that are new, or have no
\* recorded latest episode date, or whose latest episode is at or after now minus the window.
C7_ActiveFeedsByCriteria ==
    active_urls.called => (~Raised(active_urls) /\ active_urls.ret = hist.expected)

Dormant == hist.input \ hist.expected

C9_AggregateFailureFailsOpen ==
    (active_urls.called /\ active_urls.agg_fails /\ hist.input \cap DOMAIN podcasts # {}) =>
        (~Raised(active_urls) /\ active_urls.ret = hist.input)

ReconcileFinished ==
    pc \in {"summary", "done"} /\ hist.reconciled /\ ~hist.list_failed /\ ~hist.delete_failed

ExactlyMissingDeleted ==
    LET csv_feed_urls == Range(Urls(csv))
        before == hist.before
        gone == DOMAIN before.podcasts \ csv_feed_urls
    IN  /\ hist.deleted = gone
        /\ DOMAIN podcasts = DOMAIN before.podcasts \ gone
        /\ \A f \in DOMAIN podcasts : podcasts[f] = before.podcasts[f]
        /\ episodes = {r \in before.episodes : \A f \in gone : r.podcast_id # PodcastId(f)}
        /\ deleted_count = Cardinality(gone)

LimitedRun == env.BATCH_SIZE > 0 \/ env.ONLY_DAILY_FEEDS \/ ~env.DELETE_MISSING

\* C11: in a run with a positive batch limit, or the daily-only filter, or the
\* delete-missing toggle off, no reconciliation delete is issued and no podcast leaves the store.
C11_NoDeleteInLimitedRun ==
    [][LimitedRun =>
        /\ pc' # "deleting"
        /\ DOMAIN podcasts \subseteq DOMAIN podcasts'
        /\ deleted_count' = 0 /\ hist'.deleted = {}]_vars

\* C11 witness: a batch-limited run with delete-missing on finished, and C, which
\* is not in the source list, is still stored.
C11_Witness ==
    /\ pc = "done"
    /\ env.BATCH_SIZE > 0 /\ env.DELETE_MISSING /\ ~env.ONLY_DAILY_FEEDS
    /\ csv # <<>>
    /\ "C" \in DOMAIN podcasts
    /\ processed + skipped + errors = 1

\* C12: a reconciliation delete is issued only when every feed of the run's processing
\* list has finished its attempt (processed, skipped or errored).
C12_DeleteAfterAllFeeds ==
    pc = "deleting" =>
        /\ idx = Len(feeds_to_process) + 1
        /\ processed + skipped + errors = Len(feeds_to_process)
        /\ cur = NoCur

\* C12 witness: a delete is about to be issued after both feeds of the list finished.
C12_Witness ==
    /\ pc = "deleting"
    /\ Len(feeds_to_process) = 2
    /\ processed + skipped + errors = 2
    /\ podcasts_to_delete = <<"C">>


NetworkKinds == {"RemoteProtocolError", "NetworkError", "ConnectError"}

RetryCalled == call.fn = "retry_db_operation"

\* the attempts before n all failed with a network error
NetworkFailuresBefore(plan, n) == \A m \in 1..(n - 1) : plan[m] \in NetworkKinds

\* C13: retry_db_operation invokes the operation at most max_retries times; it returns
\* the result of the first successful attempt without invoking it again; if every attempt
\* fails with a network error it raises the last attempt's failure after exactly
\* max_retries invocations.
C13_RetryBounded ==
    RetryCalled =>
        /\ call.invoked \in 1..max_retries
        /\ \A n \in 1..max_retries :
              (call.plan[n] = "ok" /\ NetworkFailuresBefore(call.plan, n)) =>
                  /\ call.invoked = n
                  /\ call.exc = NoExc
                  /\ call.ret = AttemptName[n]
        /\ NetworkFailuresBefore(call.plan, max_retries + 1) =>
              /\ call.invoked = max_retries
              /\ call.exc = [kind |-> call.plan[max_retries], code |-> None,
                             text |-> {AttemptName[max_retries]}]

\* C13 witness: two network failures and then a success, returned after three invocations.
C13_Witness ==
    /\ RetryCalled
    /\ call.plan = <<"NetworkError", "ConnectError", "ok">>
    /\ call.invoked = 3
    /\ call.ret = "attempt 3"

\* C13 witness of exhaustion: three network failures, the third one raised.
C13_WitnessExhausted ==
    /\ RetryCalled
    /\ call.plan = <<"NetworkError", "NetworkError", "RemoteProtocolError">>
    /\ call.exc.kind = "RemoteProtocolError"

\* C14: when an attempt fails with a non-network error, retry_db_operation raises that
\* error at once: the operation is not invoked again and no backoff sleep follows it.
C14_NonNetworkErrorPropagates ==
    RetryCalled =>
        \A n \in 1..max_retries :
            (call.plan[n] \notin NetworkKinds \cup {"ok"} /\ NetworkFailuresBefore(call.plan, n)) =>
                /\ call.exc = [kind |-> call.plan[n], code |-> None, text |-> {AttemptName[n]}]
                /\ call.invoked = n
                /\ call.sleeps = n - 1

\* C14 witness: a store error on the second attempt, after one network failure and one sleep.
C14_Witness ==
    /\ RetryCalled
    /\ call.plan[1] = "NetworkError" /\ call.plan[2] = "APIError"
    /\ call.exc.kind = "APIError"
    /\ call.invoked = 2
    /\ call.sleeps = 1


FeedEnds == pc \in {"loop", "upsert", "sample", "items"} /\ idx' = idx + 1

\* C15: an exception raised while processing a feed adds exactly one to the error count
\* and leaves the other counts alone, and the loop goes on to the next feed: when the run
\* is past the feed loop every feed of the list has had its attempt.
C15_FeedErrorIsCountedAndRunGoesOn ==
    [][/\ (FeedEnds /\ hist'.done.outcome = "error") =>
            /\ errors' = errors + 1
            /\ processed' = processed /\ skipped' = skipped
            /\ pc' = "loop"
       /\ pc' \in {"deleting", "summary", "done"} =>
            processed' + skipped' + errors' = Len(feeds_to_process')]_vars

\* C15 witness: the first feed failed and the second one was processed after it.
C15_Witness ==
    /\ errors = 1
    /\ processed = 1
    /\ hist.done.feed = "B"
    /\ hist.done.outcome = "processed"
    /\ pc = "done"

\* C16: a run that has started and stopped has printed the final summary, under every
\* configuration of the filters and whatever failures its feeds had (a failure of the
\* reconciliation's listing of the store apart).
C16_RunEndsWithSummary ==
    (runs > 0 /\ pc \in Stopped) => (pc = "done" \/ hist.list_failed)

\* C17: a feed whose HTTP fetch met a network failure is counted as failed only after the
\* fetch was tried max_retries times.
C17_FetchRetried ==
    (hist.last.status = "ConnectError" /\ hist.done.feed = hist.last.feed
        /\ hist.done.outcome = "error") => hist.last.requests = max_retries


IsNumber(s) == s # <<>> /\ \A i \in 1..Len(s) : s[i] \in {"0", "1", "2", "3"}

\* the duration the formats H:MM:SS, MM:SS and integer seconds give, <<>> for any other text
ExpectedDuration(dur) ==
    LET parts == Split(dur, ":")
    IN  IF \E n \in 1..Len(parts) : ~IsNumber(parts[n]) THEN <<>>
        ELSE IF Len(parts) = 3
        THEN <<Decimal(parts[1]) * 3600 + Decimal(parts[2]) * 60 + Decimal(parts[3])>>
        ELSE IF Len(parts) = 2 THEN <<Decimal(parts[1]) * 60 + Decimal(parts[2])>>
        ELSE IF Len(parts) = 1 THEN <<Decimal(parts[1])>>
        ELSE <<>>

C18_WitnessNull ==
    /\ call.fn = "insert_new_episode"
    /\ call.dur = <<"x", ":", "3", "0">>
    /\ call.ret
    /\ \E r \in call.rows : r.duration_seconds = <<>>


\* the entries of src that are non-empty and equal, ignoring case, to no earlier entry
FirstSeen(src) ==
    LET Kept(i) == src[i] # <<>> /\ \A j \in 1..(i - 1) : Lower(src[j]) # Lower(src[i])
        RECURSIVE keep(_)
        keep(n) == IF n = 0 THEN <<>>
                   ELSE IF Kept(n) THEN Append(keep(n - 1), src[n]) ELSE keep(n - 1)
    IN  keep(Len(src))

NoCaseDuplicates(list) ==
    \A i, j \in 1..Len(list) : Lower(list[i]) = Lower(list[j]) => i = j

\* C19: the genre list never holds two entries equal ignoring case: of such entries the
\* first seen is kept with its casing, in first-seen order, whether the list comes from
\* the feed or from the CSV override.
C19_GenresDeduplicated ==
    call.fn = "genres" =>
        /\ NoCaseDuplicates(call.genre)
        /\ call.genre = FirstSeen(IF call.genre_override # <<>>
                                  THEN OverrideGenres(call.genre_override)
                                  ELSE call.genres)

\* the same for lists that come from the feed alone
FeedGenresDeduplicated ==
    (call.fn = "genres" /\ call.genre_override = <<>>) =>
        /\ NoCaseDuplicates(call.genre)
        /\ call.genre = FirstSeen(call.genres)


\* the text the direct search of the raw content gives: that of the first tag found,
\* trimmed, and nothing when no tag is found or its bytes do not decode
SearchedAuthor ==
    LET tag == IF call.itunes_colon.found THEN call.itunes_colon ELSE call.itunes_underscore
    IN  IF tag.found /\ tag.valid THEN <<Strip(tag.text)>> ELSE <<>>

\* C20: the author is the first non-empty value of: the itunes:author text found by the
\* search of the raw content, the parser's itunes_author, the parser's author; a failure
\* of the search raises nothing and falls through to the parser's fields.
C20_AuthorPriority ==
    call.fn = "author" =>
        LET candidates == <<SearchedAuthor, call.parsed_itunes_author, call.parsed_author>>
            NonEmpty == {n \in 1..3 : TruthyText(candidates[n])}
        IN  /\ call.exc = NoExc
            /\ NonEmpty # {} =>
                  call.author = candidates[CHOOSE n \in NonEmpty : \A k \in NonEmpty : n <= k]
            /\ NonEmpty = {} => ~TruthyText(call.author)

\* C20 witness: the raw content's itunes:author wins over both parser fields.
C20_Witness ==
    /\ call.fn = "author"
    /\ call.itunes_colon = Tag(TRUE, <<"a">>)
    /\ call.parsed_itunes_author = << <<"b">> >>
    /\ call.parsed_author = << <<"c">> >>
    /\ call.author = << <<"a">> >>

\* C20 witness of the fall-through: the bytes found do not decode, the parser's
\* itunes_author is taken.
C20_WitnessFallThrough ==
    /\ call.fn = "author"
    /\ call.itunes_colon = Tag(FALSE, <<"a">>)
    /\ call.parsed_itunes_author = << <<"b">> >>
    /\ call.author = << <<"b">> >>


\* C21: for a non-empty input list get_active_feed_urls makes its existence lookups in
\* consecutive batches of at most batch_size keys, every input feed in exactly one batch,
\* and returns a result.
C21_LookupsBatched ==
    (active_urls.called /\ hist.input # {}) =>
        /\ ~Raised(active_urls)
        /\ active_urls.batches # <<>>
        /\ \A b \in 1..Len(active_urls.batches) :
              Len(active_urls.batches[b]) \in 1..batch_size
        /\ \A f \in hist.input :
              Cardinality({<<b, n>> \in (1..Len(active_urls.batches)) \X (1..batch_size) :
                              /\ n <= Len(active_urls.batches[b])
                              /\ active_urls.batches[b][n] = f}) = 1


\* the sampling pre-check of the current feed runs to its end, off the forced paths
SampleStep ==
    /\ pc = "sample"
    /\ ~(cur.recently_refreshed \/ env.FORCE_REFRESH)
    /\ pc' # "crashed"
    /\ ~(pc' = "loop" /\ hist'.done.outcome = "error")

\* none of the first min(5, n) items of the current feed has a guid without a stored row
NothingNewInSample ==
    \A n \in 1..Min(5, Len(cur.items)) :
        Truthy(GuidOf(cur.items[n])) => KeyRows(cur.podcast_id, GuidOf(cur.items[n])) # {}

\* C22: off the crash-recovery and force-refresh paths a fetched feed is skipped as
\* "no new episodes" exactly when none of its first min(5, n) items has a guid absent
\* from the store; the skip counts one skipped feed, attempts no insert and writes nothing.
C22_SkippedIffSampleStored ==
    [][SampleStep =>
        IF NothingNewInSample
        THEN /\ pc' = "loop" /\ idx' = idx + 1
             /\ hist'.done.outcome = "no_new"
             /\ hist'.done.attempts = <<>>
             /\ skipped' = skipped + 1 /\ processed' = processed /\ errors' = errors
             /\ podcasts' = podcasts /\ episodes' = episodes
        ELSE /\ pc' = "items" /\ idx' = idx
             /\ skipped' = skipped]_vars

\* a feed with more items than the sample is skipped, its upsert being its only write
C22_Witness ==
    /\ hist.done.outcome = "no_new"
    /\ ~hist.done.force
    /\ hist.done.nitems > 5
    /\ hist.done.feed \in hist.written
    /\ hist.inserted = {}

\* a feed goes on to the item loop because a sampled guid is not stored
C22_WitnessNew ==
    /\ pc = "items" /\ hist.sampled /\ hist.attempts = <<>>
    /\ \E n \in 1..Min(5, Len(cur.items)) :
          Truthy(GuidOf(cur.items[n])) /\ KeyRows(cur.podcast_id, GuidOf(cur.items[n])) = {}


\* the first of the three lists that is not empty
FirstYielding(a, b, c) == IF a # <<>> THEN a ELSE IF b # <<>> THEN b ELSE c

\* C23 as stated: collection stops at the first of the iTunes category structure, the
\* tags field and the categories field that yields any genre; a non-empty override
\* replaces the list with its comma-split, trimmed, non-empty parts.
C23_FirstYieldingSourceOnly ==
    call.fn = "collect" =>
        call.genre = IF call.genre_override # <<>>
                     THEN OverrideGenres(call.genre_override)
                     ELSE GenresUnique(FirstYielding(
                              TruthyNames(ItunesGenres(call.itunes_cats)),
                              TruthyNames(TagsGenres(call.tags)),
                              TruthyNames(CategoriesGenres(call.cats))))

\* C23 amended: the genres of the iTunes category structure and then those of the tags
\* field are both collected; the categories field is read only when these two added
\* nothing; a non-empty override replaces the de-duplicated list with its comma-split,
\* trimmed, non-empty parts.
C23_ItunesAndTagsThenCategories ==
    call.fn = "collect" =>
        LET both == ItunesGenres(call.itunes_cats) \o TagsGenres(call.tags)
        IN  /\ call.genres = IF both # <<>> THEN both ELSE CategoriesGenres(call.cats)
            /\ call.genre = IF call.genre_override # <<>>
                            THEN OverrideGenres(call.genre_override)
                            ELSE GenresUnique(call.genres)
            /\ \A n \in 1..Len(call.genre) :
                  call.genre_override # <<>> =>
                      /\ call.genre[n] # <<>>
                      /\ Strip(call.genre[n]) = call.genre[n]
                      /\ \A i \in 1..Len(call.genre[n]) : call.genre[n][i] # ","

\* both the iTunes structure and the tags add genres, and the categories field is left out
C23_Witness ==
    /\ call.fn = "collect"
    /\ ItunesGenres(call.itunes_cats) # <<>>
    /\ TagsGenres(call.tags) # <<>>
    /\ CategoriesGenres(call.cats) # <<>>
    /\ call.genre_override = <<>>
    /\ Len(call.genre) = 2

\* the categories field is the only source of genres
C23_WitnessFallback ==
    /\ call.fn = "collect"
    /\ call.genre_override = <<>>
    /\ call.genres # <<>>
    /\ call.genres = CategoriesGenres(call.cats)

\* the override replaces a collected list
C23_WitnessOverride ==
    /\ call.fn = "collect"
    /\ call.genres # <<>>
    /\ Len(call.genre) = 2
    /\ call.genre_override # <<>>

\* the names of all levels of a category structure, in traversal order
RECURSIVE AllLevels(_)
AllLevels(v) ==
    IF v.type = "str" THEN <<v.value>>
    ELSE IF v.type = "list" THEN Extend([n \in 1..Len(v.items) |-> AllLevels(v.items[n])])
    ELSE IF v.type = "dict"
         THEN TruthyNames(<<extract_genre_from_item(v)>>) \o
              (IF v.category = <<>> THEN <<>> ELSE AllLevels(v.category[1]))
    ELSE <<>>

\* C24: extract_nested_genres returns the names of all levels of a category structure,
\* flattened in traversal order, whatever its depth.
C24_AllLevelsFlattened ==
    call.fn = "extract_nested_genres" => call.extracted = AllLevels(call.cat_item)


\* the run is at, or was killed at, the episode checks and inserts of the current feed
AtEpisodes ==
    \/ pc \in {"sample", "items"}
    \/ pc = "crashed" /\ hist.crashed_at \in {"sample", "items"}

\* C25: whenever a run is at a feed's episode existence checks or inserts, the podcast
\* row already carries this run's time as last_refreshed and the tokens of the fetch; this also
\* holds of the store a run killed there leaves behind.
C25_UpsertBeforeEpisodes ==
    AtEpisodes =>
        /\ cur.feed_url \in DOMAIN podcasts
        /\ podcasts[cur.feed_url].last_refreshed = hist.started
        /\ podcasts[cur.feed_url].etag = cur.meta.etag
        /\ podcasts[cur.feed_url].last_modified = cur.meta.last_modified

\* a run is killed in the item loop with some items inserted and others not yet attempted
C25_Witness ==
    /\ pc = "crashed" /\ hist.crashed_at = "items"
    /\ hist.inserted # {}
    /\ Len(hist.attempts) < Len(cur.items)
    /\ podcasts[cur.feed_url].last_refreshed = hist.started

\* C26: after a run killed between a feed's upsert and the end of its item loop, the
\* next run that completes over the unchanged feed leaves a row for every item of the
\* feed that has a guid, within or after the crash-recovery threshold.
C26_NextRunStoresEveryItem ==
    (pc = "done" /\ errors = 0 /\ hist.prev_interrupted # {}) =>
        \A f \in hist.prev_interrupted : \A n \in 1..Len(Body(f)) :
            Truthy(GuidOf(Body(f)[n])) =>
                \E r \in episodes : r.podcast_id = podcasts[f].id /\ r.guid = GuidOf(Body(f)[n])


\* C27: each feed attempt adds one to exactly one of processed, skipped and errors: in
\* the feed loop their sum is the number of feeds attempted so far, and after the loop
\* it is the number of feeds selected for the run.
C27_CountersCountAttempts ==
    [][/\ runs' = runs =>
            /\ processed' >= processed /\ skipped' >= skipped /\ errors' >= errors
            /\ (processed' + skipped' + errors') - (processed + skipped + errors)
                    = idx' - idx
            /\ idx' - idx \in {0, 1}
       /\ pc' \in {"loop", "upsert", "sample", "items"} =>
            processed' + skipped' + errors' = idx' - 1
       /\ pc' \in {"summary", "deleting", "done"} =>
            processed' + skipped' + errors' = Len(feeds_to_process')]_vars

\* a run ends with one feed counted as skipped and one as an error
C27_Witness ==
    /\ pc = "done"
    /\ Len(feeds_to_process) = 2
    /\ skipped = 1 /\ errors = 1 /\ processed = 0
    /\ hist.done.outcome = "no_new"


\* C28: at the end of every run the new-episodes count is the number of episode rows
\* the run created in the store.
C28_CountIsRowsCreated ==
    pc = "done" => new_episodes_added = Cardinality(hist.inserted)


C30_StoredTokenNotNulled ==
    [][\A f \in DOMAIN podcasts \cap DOMAIN podcasts' :
          /\ podcasts[f].etag # None => podcasts'[f].etag # None
          /\ podcasts[f].last_modified # None => podcasts'[f].last_modified # None]_vars

====
